---------------------------- MODULE Spec2Model ----------------------------
(***************************************************************************)
(* Model of mirrord/console/src/logger.rs: the console logger.             *)
(*                                                                         *)
(*   ConsoleLogger::enabled / log / flush   the Sink Adapter               *)
(*   send_hello                             the SessionDescriptor write    *)
(*   logger_task                            the Delivery Loop              *)
(*   init_logger                            Initialization                 *)
(*                                                                         *)
(* Every call of init_logger builds its own pipeline (sync_channel,        *)
(* WebSocket connection, background thread); pipelines are numbered by     *)
(* the call that built them.  The process-wide logger of the log crate is  *)
(* the variable installed.  Strings are sequences of one-character         *)
(* strings, so that str::contains is computed and not assumed.             *)
(***************************************************************************)
EXTENDS Integers, Sequences, FiniteSets

(***************************************************************************)
(* Bounds of the model.                                                    *)
(***************************************************************************)
\* number of init_logger calls made by the process
MaxInits == 2
\* log() calls made by the application threads, all together
MaxCalls == 4
\* the model explores the hand-off queue with at most this capacity
MaxCap == 2
\* length of the padding put around a candidate origin (EnabledSpec)
MaxPad == 1

(***************************************************************************)
(* Program constants.                                                      *)
(***************************************************************************)
\* logger.rs:85  sync_channel(10000)
SYNC_CHANNEL_BOUND == 10000

\* The capacity of the channel as explored: the bound of line 85, cut down
\* to MaxCap so that a full queue is reachable.
Capacity == IF SYNC_CHANNEL_BOUND < MaxCap THEN SYNC_CHANNEL_BOUND ELSE MaxCap

Inits     == 1..MaxInits
\* the application threads calling log()
Producers == {"t1", "t2"}

(***************************************************************************)
(* Strings.                                                                *)
(***************************************************************************)
\* logger.rs:26  the marker "mirrord"
Marker == <<"m", "i", "r", "r", "o", "r", "d">>

\* origin tags used by the application threads of the main specification
T_mirrord_layer == <<"m", "i", "r", "r", "o", "r", "d", "_", "l">>
T_x_mirrord     == <<"x", ":", ":", "m", "i", "r", "r", "o", "r", "d">>
T_other_lib_x   == <<"o", "t", "h", "e", "r", "_", "l", "i", "b", ":", ":", "x">>
T_tungstenite   == <<"t", "u", "n", "g", "s", "t", "e", "n", "i", "t", "e">>
T_empty         == <<>>

Targets == {T_mirrord_layer, T_other_lib_x}

\* str::starts_with, character by character
RECURSIVE StartsWith(_, _)
StartsWith(hay, needle) ==
    IF needle = <<>> THEN TRUE
    ELSE IF hay = <<>> THEN FALSE
    ELSE Head(hay) = Head(needle) /\ StartsWith(Tail(hay), Tail(needle))

\* str::contains: scan the haystack left to right for a position where the
\* needle starts
RECURSIVE Contains(_, _)
Contains(hay, needle) ==
    IF StartsWith(hay, needle) THEN TRUE
    ELSE IF hay = <<>> THEN FALSE
    ELSE Contains(Tail(hay), needle)


(***************************************************************************)
(* Wire Record Model.                                                      *)
(***************************************************************************)
Messages == {"a"}

\* protocol::Record as built by log(): the target and the message text.  The
\* fields by and nth are the identity of the log::Record it was built from
\* (the calling thread and the number of its call), so that two Records
\* built from equal input are still two Records.
Record(p, n, target, message) ==
    [target |-> target, message |-> message, by |-> p, nth |-> n]

NoRecord == [target |-> <<>>, message |-> "", by |-> "", nth |-> 0]

\* Message::binary(serde_json::to_vec(&hello))
HelloMsg == [kind |-> "Hello", record |-> NoRecord]

\* Message::binary(serde_json::to_vec(&msg))
RecordMsg(r) == [kind |-> "Record", record |-> r]

(***************************************************************************)
(* State.                                                                  *)
(***************************************************************************)
VARIABLES
    initPc,      \* init_logger call i: "idle", "connected", "hello", "spawned", "returned"
    result,      \* what init_logger call i returned: "none", "Ok", or the error
    sender,      \* where tx of call i is: "none", "local", "installed", "dropped"
    receiver,    \* where rx of call i is: "none", "local", "task", "dropped"
    socket,      \* the connection of call i: "none", "open", "reset", "hung", "dropped"
    wire,        \* the messages written to the connection of call i, in order
    queue,       \* the Records buffered in the channel of call i
    task,        \* logger_task of call i: "none", "recv", "write", "write_error", "queue_closed"
    msg,         \* the Record logger_task i holds between recv and write_message
    installed,   \* the process-wide logger: 0, or the call that installed it
    max_level,   \* log::max_level(): "Off" or "Trace"
    call,        \* the last log() call of each application thread: its Record
                 \* and "discarded", "sent", "failed", or "blocked" in send
    ncalls,      \* the number of log() calls each application thread has made
    attempts,    \* the number of sender.send invocations so far
    stderr,      \* the lines written by eprintln!, by the function that wrote them
    enq,         \* the Records inserted into the channel of call i, in insertion order
    probe,       \* EnabledSpec: the origin tag handed to enabled
    verdict      \* EnabledSpec: "none", or what enabled returned for probe

pipeline == <<initPc, result, sender, receiver, socket, wire, queue, task, msg,
              installed, max_level>>
threads  == <<call, ncalls, attempts, stderr, enq>>
filter   == <<probe, verdict>>
vars     == <<pipeline, threads, filter>>

NoCall == [state |-> "none", record |-> NoRecord]

InitPipeline ==
    /\ initPc    = [i \in Inits |-> "idle"]
    /\ result    = [i \in Inits |-> "none"]
    /\ sender    = [i \in Inits |-> "none"]
    /\ receiver  = [i \in Inits |-> "none"]
    /\ socket    = [i \in Inits |-> "none"]
    /\ wire      = [i \in Inits |-> <<>>]
    /\ queue     = [i \in Inits |-> <<>>]
    /\ task      = [i \in Inits |-> "none"]
    /\ msg       = [i \in Inits |-> NoRecord]
    /\ installed = 0
    /\ max_level = "Off"
    /\ call      = [p \in Producers |-> NoCall]
    /\ ncalls    = [p \in Producers |-> 0]
    /\ attempts  = 0
    /\ stderr    = [log |-> 0, logger_task |-> 0]
    /\ enq       = [i \in Inits |-> <<>>]

Init ==
    /\ InitPipeline
    /\ probe   = <<>>
    /\ verdict = "none"

(***************************************************************************)
(* ConsoleLogger::enabled (logger.rs:25-27).                               *)
(***************************************************************************)
\* an enabled that tests the beginning of the target only (starts_with)
enabledPrefix(target) == StartsWith(target, Marker)

enabled(target) == Contains(target, Marker)

(***************************************************************************)
(* EnabledSpec: enabled applied to candidate origin tags.  A candidate is  *)
(* a core string with up to MaxPad characters put before and after it.     *)
(***************************************************************************)
T_mirror   == <<"m", "i", "r", "r", "o", "r">>
T_irrord   == <<"i", "r", "r", "o", "r", "d">>
T_mirord   == <<"m", "i", "r", "o", "r", "d">>
T_MIRRORD  == <<"M", "I", "R", "R", "O", "R", "D">>

Cores == {Marker, T_mirror, T_irrord, T_mirord, T_MIRRORD, T_mirrord_layer,
          T_x_mirrord, T_other_lib_x, T_tungstenite, T_empty}

PadChars == {"m", "d", "x"}

Pads == UNION {[1..n -> PadChars] : n \in 0..MaxPad}

Probes == {pre \o core \o post : pre \in Pads, core \in Cores, post \in Pads}

EnabledInit ==
    /\ InitPipeline
    /\ probe \in Probes
    /\ verdict = "none"

\* logger.rs:25-27 called with metadata whose target is probe
call_enabled ==
    /\ verdict = "none"
    /\ verdict' = IF enabled(probe) THEN "true" ELSE "false"
    /\ UNCHANGED <<pipeline, threads, probe>>

EnabledNext == call_enabled

EnabledSpec == EnabledInit /\ [][EnabledNext]_vars

(***************************************************************************)
(* The channel: std::sync::mpsc::sync_channel.                             *)
(***************************************************************************)
SenderAlive(i)   == sender[i] \in {"local", "installed"}
ReceiverAlive(i) == receiver[i] \in {"local", "task"}

\* a send that does not wait for room (try_send): a full buffer is an error
SendOutcomeNoWait(i) ==
    IF ~ReceiverAlive(i) \/ Len(queue[i]) >= Capacity THEN "err" ELSE "ok"

\* a send on a channel without a bound (channel() for sync_channel(n))
SendOutcomeUnbounded(i) == IF ~ReceiverAlive(i) THEN "err" ELSE "ok"

\* SyncSender::send on channel i: "err" once the Receiver is gone, "ok" when
\* the buffer has room, "block" while it is full.
SendOutcome(i) ==
    IF ~ReceiverAlive(i) THEN "err"
    ELSE IF Len(queue[i]) < Capacity THEN "ok"
    ELSE "block"

\* a recv that takes the newest buffered value
RecvValueNewest(q) == q[Len(q)]

\* Receiver::recv takes the oldest buffered value
RecvValue(q) == Head(q)
RecvRest(q)  == Tail(q)

(***************************************************************************)
(* The connection.  The remote side may close it (every later write        *)
(* fails) or stop reading from it (a write never completes).               *)
(***************************************************************************)
remote_close(i) ==
    /\ socket[i] = "open"
    /\ socket' = [socket EXCEPT ![i] = "reset"]
    /\ UNCHANGED <<initPc, result, sender, receiver, wire, queue, task, msg,
                   installed, max_level, threads, filter>>

remote_hang(i) ==
    /\ socket[i] = "open"
    /\ socket' = [socket EXCEPT ![i] = "hung"]
    /\ UNCHANGED <<initPc, result, sender, receiver, wire, queue, task, msg,
                   installed, max_level, threads, filter>>

(***************************************************************************)
(* init_logger (logger.rs:84-96), one action per statement.  The process   *)
(* makes its calls of init_logger one after the other.                     *)
(***************************************************************************)
\* the ConsoleError a failed write_message of send_hello is converted to by
\* the ? of logger.rs:66 (From<tungstenite::Error>, defined in error.rs)
FromWsError == "ConnectError"

\* an init_logger that spawns logger_task before it connects
init_logger_connect_spawn_first(i) ==
    /\ initPc[i] = "idle"
    /\ i > 1 => initPc[i - 1] = "returned"
    /\ task' = [task EXCEPT ![i] = "recv"]
    /\ \E reachable \in BOOLEAN :
         IF reachable
         THEN /\ initPc'   = [initPc EXCEPT ![i] = "connected"]
              /\ sender'   = [sender EXCEPT ![i] = "local"]
              /\ receiver' = [receiver EXCEPT ![i] = "task"]
              /\ socket'   = [socket EXCEPT ![i] = "open"]
              /\ UNCHANGED result
         ELSE /\ initPc'   = [initPc EXCEPT ![i] = "returned"]
              /\ result'   = [result EXCEPT ![i] = "ConnectError"]
              /\ sender'   = [sender EXCEPT ![i] = "dropped"]
              /\ receiver' = [receiver EXCEPT ![i] = "task"]
              /\ UNCHANGED socket
    /\ UNCHANGED <<wire, queue, msg, installed, max_level, threads, filter>>

\* logger.rs:85-87: sync_channel(10000), then connect(..).map_err(ConnectError)?
init_logger_connect(i) ==
    /\ initPc[i] = "idle"
    /\ i > 1 => initPc[i - 1] = "returned"
    /\ \E reachable \in BOOLEAN :
         IF reachable
         THEN /\ initPc'   = [initPc EXCEPT ![i] = "connected"]
              /\ sender'   = [sender EXCEPT ![i] = "local"]
              /\ receiver' = [receiver EXCEPT ![i] = "local"]
              /\ socket'   = [socket EXCEPT ![i] = "open"]
              /\ UNCHANGED result
         ELSE /\ initPc'   = [initPc EXCEPT ![i] = "returned"]
              /\ result'   = [result EXCEPT ![i] = "ConnectError"]
              /\ sender'   = [sender EXCEPT ![i] = "dropped"]
              /\ receiver' = [receiver EXCEPT ![i] = "dropped"]
              /\ UNCHANGED socket
    /\ UNCHANGED <<wire, queue, task, msg, installed, max_level, threads, filter>>

\* a send_hello that builds the Hello and returns Ok without writing it
send_hello_unwritten(i) ==
    /\ initPc[i] = "connected"
    /\ socket[i] \in {"open", "reset"}
    /\ initPc' = [initPc EXCEPT ![i] = "hello"]
    /\ UNCHANGED <<result, sender, receiver, socket, wire, queue, task, msg,
                   installed, max_level, threads, filter>>

\* a send_hello that ignores the result of write_message and returns Ok
send_hello_ignores_err(i) ==
    /\ initPc[i] = "connected"
    /\ socket[i] \in {"open", "reset"}
    /\ wire'   = [wire EXCEPT ![i] = IF socket[i] = "open"
                                     THEN Append(@, HelloMsg) ELSE @]
    /\ initPc' = [initPc EXCEPT ![i] = "hello"]
    /\ UNCHANGED <<result, sender, receiver, socket, queue, task, msg,
                   installed, max_level, threads, filter>>

\* logger.rs:54-68 called at logger.rs:89: send_hello(&mut client)?
send_hello(i) ==
    /\ initPc[i] = "connected"
    /\ \/ /\ socket[i] = "open"
          /\ wire'   = [wire EXCEPT ![i] = Append(@, HelloMsg)]
          /\ initPc' = [initPc EXCEPT ![i] = "hello"]
          /\ UNCHANGED <<result, sender, receiver, socket>>
       \/ /\ socket[i] = "reset"
          /\ initPc'   = [initPc EXCEPT ![i] = "returned"]
          /\ result'   = [result EXCEPT ![i] = FromWsError]
          /\ sender'   = [sender EXCEPT ![i] = "dropped"]
          /\ receiver' = [receiver EXCEPT ![i] = "dropped"]
          /\ socket'   = [socket EXCEPT ![i] = "dropped"]
          /\ UNCHANGED wire
    /\ UNCHANGED <<queue, task, msg, installed, max_level, threads, filter>>

\* logger.rs:90-92: thread::spawn(move || logger_task(client, rx))
init_logger_spawn(i) ==
    /\ initPc[i] = "hello"
    /\ initPc'   = [initPc EXCEPT ![i] = "spawned"]
    /\ task'     = [task EXCEPT ![i] = "recv"]
    /\ receiver' = [receiver EXCEPT ![i] = "task"]
    /\ UNCHANGED <<result, sender, socket, wire, queue, msg, installed,
                   max_level, threads, filter>>

\* an installation that replaces the logger already installed
init_logger_set_logger_overwrite(i) ==
    /\ initPc[i] = "spawned"
    /\ initPc'    = [initPc EXCEPT ![i] = "returned"]
    /\ installed' = i
    /\ max_level' = "Trace"
    /\ sender'    = [j \in Inits |->
                        IF j = i THEN "installed"
                        ELSE IF sender[j] = "installed" THEN "dropped"
                        ELSE sender[j]]
    /\ result'    = [result EXCEPT ![i] = "Ok"]
    /\ UNCHANGED <<receiver, socket, wire, queue, task, msg, threads, filter>>

\* a set_boxed_logger that keeps the logger it rejects alive
init_logger_set_logger_leaks(i) ==
    /\ initPc[i] = "spawned"
    /\ initPc' = [initPc EXCEPT ![i] = "returned"]
    /\ IF installed = 0
       THEN /\ installed' = i
            /\ max_level' = "Trace"
            /\ sender'    = [sender EXCEPT ![i] = "installed"]
            /\ result'    = [result EXCEPT ![i] = "Ok"]
       ELSE /\ result'    = [result EXCEPT ![i] = "SetLoggerError"]
            /\ UNCHANGED <<sender, installed, max_level>>
    /\ UNCHANGED <<receiver, socket, wire, queue, task, msg, threads, filter>>

\* logger.rs:93-95: set_boxed_logger(Box::new(logger)).map(set_max_level)?
\* A logger that is not installed is dropped, and its Sender with it.
init_logger_set_logger(i) ==
    /\ initPc[i] = "spawned"
    /\ initPc' = [initPc EXCEPT ![i] = "returned"]
    /\ IF installed = 0
       THEN /\ installed' = i
            /\ max_level' = "Trace"
            /\ sender'    = [sender EXCEPT ![i] = "installed"]
            /\ result'    = [result EXCEPT ![i] = "Ok"]
       ELSE /\ result'    = [result EXCEPT ![i] = "SetLoggerError"]
            /\ sender'    = [sender EXCEPT ![i] = "dropped"]
            /\ UNCHANGED <<installed, max_level>>
    /\ UNCHANGED <<receiver, socket, wire, queue, task, msg, threads, filter>>

init_logger(i) ==
    \/ init_logger_connect(i)
    \/ send_hello(i)
    \/ init_logger_spawn(i)
    \/ init_logger_set_logger(i)

(***************************************************************************)
(* logger_task (logger.rs:72-80), one action per blocking call.            *)
(***************************************************************************)
\* a logger_task that leaves the loop as soon as the Sender is gone, with
\* Records still in the channel
logger_task_recv_no_drain(i) ==
    /\ task[i] = "recv"
    /\ \/ /\ queue[i] # <<>>
          /\ SenderAlive(i)
          /\ msg'   = [msg EXCEPT ![i] = RecvValue(queue[i])]
          /\ queue' = [queue EXCEPT ![i] = RecvRest(queue[i])]
          /\ task'  = [task EXCEPT ![i] = "write"]
          /\ UNCHANGED <<receiver, socket>>
       \/ /\ ~SenderAlive(i)
          /\ task'     = [task EXCEPT ![i] = "queue_closed"]
          /\ receiver' = [receiver EXCEPT ![i] = "dropped"]
          /\ socket'   = [socket EXCEPT ![i] = "dropped"]
          /\ queue'    = [queue EXCEPT ![i] = <<>>]
          /\ UNCHANGED msg
    /\ UNCHANGED <<initPc, result, sender, wire, installed, max_level,
                   threads, filter>>

\* logger.rs:73: while let Ok(msg) = rx.recv()
logger_task_recv(i) ==
    /\ task[i] = "recv"
    /\ \/ /\ queue[i] # <<>>
          /\ msg'   = [msg EXCEPT ![i] = RecvValue(queue[i])]
          /\ queue' = [queue EXCEPT ![i] = RecvRest(queue[i])]
          /\ task'  = [task EXCEPT ![i] = "write"]
          /\ UNCHANGED <<receiver, socket>>
       \/ /\ queue[i] = <<>>
          /\ ~SenderAlive(i)
          /\ task'     = [task EXCEPT ![i] = "queue_closed"]
          /\ receiver' = [receiver EXCEPT ![i] = "dropped"]
          /\ socket'   = [socket EXCEPT ![i] = "dropped"]
          /\ UNCHANGED <<msg, queue>>
    /\ UNCHANGED <<initPc, result, sender, wire, installed, max_level,
                   threads, filter>>

\* a logger_task that reports the failed write and stops writing, but keeps
\* rx alive instead of returning
logger_task_write_keeps_rx(i) ==
    /\ task[i] = "write"
    /\ \/ /\ socket[i] = "open"
          /\ wire' = [wire EXCEPT ![i] = Append(@, RecordMsg(msg[i]))]
          /\ task' = [task EXCEPT ![i] = "recv"]
          /\ UNCHANGED <<stderr, socket>>
       \/ /\ socket[i] = "reset"
          /\ stderr'   = [stderr EXCEPT !.logger_task = @ + 1]
          /\ task'     = [task EXCEPT ![i] = "write_error"]
          /\ socket'   = [socket EXCEPT ![i] = "dropped"]
          /\ UNCHANGED wire
    /\ msg' = [msg EXCEPT ![i] = NoRecord]
    /\ UNCHANGED <<initPc, result, sender, receiver, queue, installed, max_level,
                   call, ncalls, attempts, enq, filter>>

\* a logger_task that reports the failed write and goes on with the next
\* Record instead of leaving the loop
logger_task_write_continue(i) ==
    /\ task[i] = "write"
    /\ \/ /\ socket[i] = "open"
          /\ wire' = [wire EXCEPT ![i] = Append(@, RecordMsg(msg[i]))]
          /\ UNCHANGED stderr
       \/ /\ socket[i] = "reset"
          /\ stderr' = [stderr EXCEPT !.logger_task = @ + 1]
          /\ UNCHANGED wire
    /\ task' = [task EXCEPT ![i] = "recv"]
    /\ msg' = [msg EXCEPT ![i] = NoRecord]
    /\ UNCHANGED <<initPc, result, sender, receiver, socket, queue, installed,
                   max_level, call, ncalls, attempts, enq, filter>>

\* a logger_task whose write gives up on a connection that hangs, as a
\* write with a timeout would
logger_task_write_timeout(i) ==
    /\ task[i] = "write"
    /\ \/ /\ socket[i] = "open"
          /\ wire' = [wire EXCEPT ![i] = Append(@, RecordMsg(msg[i]))]
          /\ task' = [task EXCEPT ![i] = "recv"]
          /\ UNCHANGED <<receiver, queue, stderr, socket>>
       \/ /\ socket[i] \in {"reset", "hung"}
          /\ stderr'   = [stderr EXCEPT !.logger_task = @ + 1]
          /\ task'     = [task EXCEPT ![i] = "write_error"]
          /\ receiver' = [receiver EXCEPT ![i] = "dropped"]
          /\ queue'    = [queue EXCEPT ![i] = <<>>]
          /\ socket'   = [socket EXCEPT ![i] = "dropped"]
          /\ UNCHANGED wire
    /\ msg' = [msg EXCEPT ![i] = NoRecord]
    /\ UNCHANGED <<initPc, result, sender, installed, max_level,
                   call, ncalls, attempts, enq, filter>>

\* logger.rs:74-78: client.write_message(msg); on Err, eprintln! and break.
\* Leaving the function drops rx, the Records still buffered with it, and
\* the client.
logger_task_write(i) ==
    /\ task[i] = "write"
    /\ \/ /\ socket[i] = "open"
          /\ wire' = [wire EXCEPT ![i] = Append(@, RecordMsg(msg[i]))]
          /\ task' = [task EXCEPT ![i] = "recv"]
          /\ UNCHANGED <<receiver, queue, stderr, socket>>
       \/ /\ socket[i] = "reset"
          /\ stderr'   = [stderr EXCEPT !.logger_task = @ + 1]
          /\ task'     = [task EXCEPT ![i] = "write_error"]
          /\ receiver' = [receiver EXCEPT ![i] = "dropped"]
          /\ queue'    = [queue EXCEPT ![i] = <<>>]
          /\ socket'   = [socket EXCEPT ![i] = "dropped"]
          /\ UNCHANGED wire
    /\ msg' = [msg EXCEPT ![i] = NoRecord]
    /\ UNCHANGED <<initPc, result, sender, installed, max_level,
                   call, ncalls, attempts, enq, filter>>

logger_task(i) ==
    \/ logger_task_recv(i)
    \/ logger_task_write(i)

(***************************************************************************)
(* ConsoleLogger::log (logger.rs:30-48) and flush (logger.rs:50).          *)
(* The log crate hands a record to the installed logger only; before       *)
(* set_boxed_logger succeeds max_level is Off and no logger is called.     *)
(***************************************************************************)
\* a log() whose Err arm prints nothing: Err(_) => {}
send_complete_silent(p, i, r) ==
    /\ SendOutcome(i) # "block"
    /\ IF SendOutcome(i) = "ok"
       THEN /\ queue' = [queue EXCEPT ![i] = Append(@, r)]
            /\ enq'   = [enq EXCEPT ![i] = Append(@, r)]
            /\ call'  = [call EXCEPT ![p] = [state |-> "sent", record |-> r]]
       ELSE /\ call'  = [call EXCEPT ![p] = [state |-> "failed", record |-> r]]
            /\ UNCHANGED <<queue, enq>>
    /\ UNCHANGED stderr

\* a send that does not insert a Record when the queue already holds one
\* with the same target and message
send_complete_dedup(p, i, r) ==
    /\ SendOutcome(i) # "block"
    /\ IF SendOutcome(i) = "ok"
       THEN /\ IF \E k \in DOMAIN queue[i] :
                      /\ queue[i][k].target = r.target
                      /\ queue[i][k].message = r.message
               THEN UNCHANGED <<queue, enq>>
               ELSE /\ queue' = [queue EXCEPT ![i] = Append(@, r)]
                    /\ enq'   = [enq EXCEPT ![i] = Append(@, r)]
            /\ call'  = [call EXCEPT ![p] = [state |-> "sent", record |-> r]]
            /\ UNCHANGED stderr
       ELSE /\ stderr' = [stderr EXCEPT !.log = @ + 1]
            /\ call'   = [call EXCEPT ![p] = [state |-> "failed", record |-> r]]
            /\ UNCHANGED <<queue, enq>>

\* logger.rs:32-46: the outcome of self.sender.send(r) for thread p, once it
\* is decided.  Ok(_) => {}, Err(e) => eprintln!
send_complete(p, i, r) ==
    /\ SendOutcome(i) # "block"
    /\ IF SendOutcome(i) = "ok"
       THEN /\ queue' = [queue EXCEPT ![i] = Append(@, r)]
            /\ enq'   = [enq EXCEPT ![i] = Append(@, r)]
            /\ call'  = [call EXCEPT ![p] = [state |-> "sent", record |-> r]]
            /\ UNCHANGED stderr
       ELSE /\ stderr' = [stderr EXCEPT !.log = @ + 1]
            /\ call'   = [call EXCEPT ![p] = [state |-> "failed", record |-> r]]
            /\ UNCHANGED <<queue, enq>>

\* the number of log() calls made so far
RECURSIVE CallsOf(_)
CallsOf(S) ==
    IF S = {} THEN 0
    ELSE LET p == CHOOSE q \in S : TRUE IN ncalls[p] + CallsOf(S \ {p})

\* a log() that does not ask enabled
log_unfiltered(p, target, message) ==
    /\ installed # 0
    /\ sender[installed] = "installed"
    /\ max_level = "Trace"
    /\ call[p].state # "blocked"
    /\ CallsOf(Producers) < MaxCalls
    /\ ncalls' = [ncalls EXCEPT ![p] = @ + 1]
    /\ attempts' = attempts + 1
    /\ LET r == Record(p, ncalls[p] + 1, target, message) IN
       IF SendOutcome(installed) = "block"
       THEN /\ call' = [call EXCEPT ![p] = [state |-> "blocked", record |-> r]]
            /\ UNCHANGED <<queue, enq, stderr>>
       ELSE send_complete(p, installed, r)
    /\ UNCHANGED <<initPc, result, sender, receiver, socket, wire, task, msg,
                   installed, max_level, filter>>

\* a log() that writes its Record to the connection itself when the
\* channel has no room, instead of waiting
log_write_through(p, target, message) ==
    /\ installed # 0
    /\ sender[installed] = "installed"
    /\ max_level = "Trace"
    /\ call[p].state # "blocked"
    /\ CallsOf(Producers) < MaxCalls
    /\ ncalls' = [ncalls EXCEPT ![p] = @ + 1]
    /\ LET r == Record(p, ncalls[p] + 1, target, message) IN
       IF enabled(target)
       THEN /\ attempts' = attempts + 1
            /\ IF SendOutcome(installed) = "block"
               THEN /\ call' = [call EXCEPT ![p] = [state |-> "sent", record |-> r]]
                    /\ wire' = [wire EXCEPT ![installed] = Append(@, RecordMsg(r))]
                    /\ enq'  = [enq EXCEPT ![installed] = Append(@, r)]
                    /\ UNCHANGED <<queue, stderr>>
               ELSE /\ send_complete(p, installed, r)
                    /\ UNCHANGED wire
       ELSE /\ call' = [call EXCEPT ![p] = [state |-> "discarded", record |-> r]]
            /\ UNCHANGED <<attempts, queue, enq, stderr, wire>>
    /\ UNCHANGED <<initPc, result, sender, receiver, socket, task, msg,
                   installed, max_level, filter>>

\* logger.rs:30-48
log(p, target, message) ==
    /\ installed # 0
    /\ sender[installed] = "installed"
    /\ max_level = "Trace"
    /\ call[p].state # "blocked"
    /\ CallsOf(Producers) < MaxCalls
    /\ ncalls' = [ncalls EXCEPT ![p] = @ + 1]
    /\ LET r == Record(p, ncalls[p] + 1, target, message) IN
       IF enabled(target)
       THEN /\ attempts' = attempts + 1
            /\ IF SendOutcome(installed) = "block"
               THEN /\ call' = [call EXCEPT ![p] = [state |-> "blocked", record |-> r]]
                    /\ UNCHANGED <<queue, enq, stderr>>
               ELSE send_complete(p, installed, r)
       ELSE /\ call' = [call EXCEPT ![p] = [state |-> "discarded", record |-> r]]
            /\ UNCHANGED <<attempts, queue, enq, stderr>>
    /\ UNCHANGED <<initPc, result, sender, receiver, socket, wire, task, msg,
                   installed, max_level, filter>>

\* a waiting send that is woken by room in the channel only, and not by the
\* loss of the Receiver
send_wake_needs_room(p) ==
    /\ call[p].state = "blocked"
    /\ ReceiverAlive(installed)
    /\ send_complete(p, installed, call[p].record)
    /\ UNCHANGED <<initPc, result, sender, receiver, socket, wire, task, msg,
                   installed, max_level, ncalls, attempts, filter>>

\* a send that blocked on a full channel returns once the channel has room
\* or its Receiver is gone
send_wake(p) ==
    /\ call[p].state = "blocked"
    /\ send_complete(p, installed, call[p].record)
    /\ UNCHANGED <<initPc, result, sender, receiver, socket, wire, task, msg,
                   installed, max_level, ncalls, attempts, filter>>

\* a flush that returns only once the queue has drained
flush_waits_for_drain(p) ==
    /\ installed # 0
    /\ sender[installed] = "installed"
    /\ call[p].state # "blocked"
    /\ queue[installed] = <<>>
    /\ task[installed] # "write"
    /\ UNCHANGED vars

\* logger.rs:50: fn flush(&self) {}, called by a thread that is not inside
\* log()
flush(p) ==
    /\ installed # 0
    /\ sender[installed] = "installed"
    /\ call[p].state # "blocked"
    /\ UNCHANGED vars

(***************************************************************************)
(* The specification of the pipeline.  Under Spec every write_message      *)
(* returns, with Ok or with Err; under HangSpec a connection may also hang. *)
(***************************************************************************)
Next ==
    \/ \E i \in Inits : init_logger(i)
    \/ \E i \in Inits : logger_task(i)
    \/ \E i \in Inits : remote_close(i)
    \/ \E p \in Producers, t \in Targets, m \in Messages : log(p, t, m)
    \/ \E p \in Producers : send_wake(p)
    \/ \E p \in Producers : flush(p)

Spec == Init /\ [][Next]_vars

\* The pipeline on connections whose writes succeed or never return.
HangNext ==
    \/ \E i \in Inits : init_logger(i)
    \/ \E i \in Inits : logger_task(i)
    \/ \E p \in Producers, t \in Targets, m \in Messages : log(p, t, m)
    \/ \E p \in Producers : send_wake(p)
    \/ \E i \in Inits : remote_hang(i)

HangSpec == Init /\ [][HangNext]_vars

\* the threads that are waiting in send
Blocked == {p \in Producers : call[p].state = "blocked"}

\* logger.rs:16-18: the ConsoleLogger is dropped, and its SyncSender with
\* it, while no thread is inside log().  The log crate keeps an installed
\* logger for the life of the process, so Spec has no such step.
drop_logger(i) ==
    /\ installed = i
    /\ sender[i] = "installed"
    /\ Blocked = {}
    /\ sender' = [sender EXCEPT ![i] = "dropped"]
    /\ UNCHANGED <<initPc, result, receiver, socket, wire, queue, task, msg,
                   installed, max_level, threads, filter>>

\* The pipeline on connections whose writes all succeed, with a logger that
\* may be dropped: logger_task on a channel whose producing side goes away
\* while Records are buffered.
TeardownNext ==
    \/ \E i \in Inits : init_logger(i)
    \/ \E i \in Inits : logger_task(i)
    \/ \E p \in Producers, t \in Targets, m \in Messages : log(p, t, m)
    \/ \E p \in Producers : send_wake(p)
    \/ \E i \in Inits : drop_logger(i)

TeardownSpec == Init /\ [][TeardownNext]_vars

(***************************************************************************)
(* Properties.                                                             *)
(***************************************************************************)
\* the Records written to connection i, in the order of their writes
Written(i) ==
    LET recs == SelectSeq(wire[i], LAMBDA m : m.kind = "Record")
    IN  [k \in 1..Len(recs) |-> recs[k].record]

HelloCount(i) == Cardinality({k \in DOMAIN wire[i] : wire[i][k].kind = "Hello"})

IsPrefix(s, t) == Len(s) <= Len(t) /\ \A k \in 1..Len(s) : s[k] = t[k]

\* thread p enters log() in this step
LogStep(p) == ncalls'[p] = ncalls[p] + 1

\* C1: on every connection the Hello is the first message written, no
\* connection carries a second Hello, and once send_hello has returned Ok
\* (the Delivery Loop can only exist after that) the connection carries
\* exactly one; so no Record is ever written before it.
C1_HelloFirstOnce ==
    \A i \in Inits :
        /\ HelloCount(i) <= 1
        /\ wire[i] # <<>> => wire[i][1] = HelloMsg
        /\ (initPc[i] \in {"hello", "spawned"} \/ task[i] # "none" \/ result[i] = "Ok")
               => HelloCount(i) = 1

\* a connection that carries the Hello followed by two Records
C1_Witness ==
    \E i \in Inits : Len(wire[i]) >= 3 /\ wire[i][2].kind = "Record"

\* C2: the Records written to a connection are a prefix of the Records
\* inserted into its queue, in insertion order; the Records of one thread
\* are written in the order of that thread's calls.
C2_FifoPrefix ==
    \A i \in Inits :
        /\ IsPrefix(Written(i), enq[i])
        /\ \A a, b \in 1..Len(Written(i)) :
               (a < b /\ Written(i)[a].by = Written(i)[b].by)
                   => Written(i)[a].nth < Written(i)[b].nth

\* three Records written, two of them by the same thread and one by another
C2_Witness ==
    \E i \in Inits :
        /\ Len(Written(i)) >= 3
        /\ \E a, b \in 1..Len(Written(i)) : Written(i)[a].by # Written(i)[b].by
        /\ \E a, b \in 1..Len(Written(i)) :
               a # b /\ Written(i)[a].by = Written(i)[b].by

\* the Record thread p hands to send in the step in which it enters log()
Sent(p) == call'[p].record

\* thread p enters log() with a target that enabled accepts
AcceptedLogStep(p) == LogStep(p) /\ enabled(Sent(p).target)

\* what a send that is waiting does: it stays as it is while the queue is
\* full and open, it can return as soon as the queue has room, and when it
\* returns Ok its Record has been appended to the queue
BlockedSendWaits ==
    /\ [](\A p \in Producers :
            (call[p].state = "blocked" /\ SendOutcome(installed) = "ok")
                => ENABLED send_wake(p))
    /\ [][\A p \in Producers :
            call[p].state = "blocked" =>
                /\ call'[p] # call[p] => SendOutcome(installed) # "block"
                /\ call'[p].state = "sent" =>
                       queue'[installed] = Append(queue[installed], call[p].record)]_vars

\* C3 as stated: an enqueue succeeds at once when the queue holds fewer
\* Records than its capacity; at capacity it blocks, without dropping the
\* Record and without an error, until the Delivery Loop removes an item.
C3_EnqueueBelowCapacitySucceeds ==
    /\ [][\A p \in Producers :
            AcceptedLogStep(p) =>
                IF Len(queue[installed]) < Capacity
                THEN /\ call'[p].state = "sent"
                     /\ queue'[installed] = Append(queue[installed], Sent(p))
                     /\ stderr' = stderr
                ELSE /\ call'[p].state = "blocked"
                     /\ queue' = queue
                     /\ stderr' = stderr]_vars
    /\ BlockedSendWaits

\* C3, amended: the same, for a queue that is open (logger_task still holds
\* the Receiver).
C3_OpenQueueEnqueue ==
    /\ [][\A p \in Producers :
            (AcceptedLogStep(p) /\ ReceiverAlive(installed)) =>
                IF Len(queue[installed]) < Capacity
                THEN /\ call'[p].state = "sent"
                     /\ queue'[installed] = Append(queue[installed], Sent(p))
                     /\ stderr' = stderr
                ELSE /\ call'[p].state = "blocked"
                     /\ queue' = queue
                     /\ stderr' = stderr]_vars
    /\ BlockedSendWaits

\* a thread blocked in send on a queue from which the Delivery Loop has just
\* taken an item, and that holds another Record inserted without waiting
C3_Witness ==
    \E p \in Producers :
        /\ call[p].state = "blocked"
        /\ ReceiverAlive(installed)
        /\ Len(queue[installed]) = Capacity - 1
        /\ task[installed] = "write"

\* C4: no queue ever holds more Records than the capacity it was created
\* with, which is at most the bound of sync_channel.
C4_QueueBounded ==
    /\ Capacity <= SYNC_CHANNEL_BOUND
    /\ \A i \in Inits : Len(queue[i]) <= Capacity

\* a full queue, with a thread blocked in send behind it, while the Delivery
\* Loop is still writing an earlier Record
C4_Witness ==
    \E i \in Inits :
        /\ Len(queue[i]) = Capacity
        /\ task[i] = "write"
        /\ \E p \in Producers : call[p].state = "blocked"

\* C5: every Record in a queue, held by a Delivery Loop or written to a
\* connection has a target that enabled accepts; a log() call with a target
\* that enabled rejects makes no send and leaves every queue as it was.
C5_OnlyAcceptedRecords ==
    /\ [](\A i \in Inits :
            /\ \A k \in DOMAIN queue[i] : enabled(queue[i][k].target)
            /\ \A k \in DOMAIN enq[i] : enabled(enq[i][k].target)
            /\ \A k \in DOMAIN Written(i) : enabled(Written(i)[k].target)
            /\ task[i] = "write" => enabled(msg[i].target))
    /\ [][\A p \in Producers :
            (LogStep(p) /\ ~enabled(Sent(p).target)) =>
                /\ call'[p].state = "discarded"
                /\ attempts' = attempts
                /\ queue' = queue
                /\ enq' = enq]_vars

\* a log() call with target "other_lib::x" has returned while the queue
\* holds a Record
C5_Witness ==
    \E p \in Producers :
        /\ call[p].state = "discarded"
        /\ call[p].record.target = T_other_lib_x
        /\ queue[installed] # <<>>

\* the target holds the marker at some position
HasMarker(target) ==
    \E k \in 1..Len(target) :
        /\ k + Len(Marker) - 1 <= Len(target)
        /\ SubSeq(target, k, k + Len(Marker) - 1) = Marker

\* C6: enabled answers true exactly for the targets that hold "mirrord" as
\* a substring; it answers false for the empty target and for the target of
\* the transport library.
C6_EnabledIffMarker ==
    verdict # "none" =>
        /\ verdict = "true" <=> HasMarker(probe)
        /\ probe \in {T_empty, T_tungstenite, T_other_lib_x} => verdict = "false"

\* enabled has answered true for a target that holds the marker but does
\* not begin with it
C6_Witness ==
    /\ verdict = "true"
    /\ ~StartsWith(probe, Marker)

\* the number of lines on the diagnostic channel
Lines(e) == e.log + e.logger_task

\* the remote side has closed the connection of the installed logger
ClosedByRemote == socket[installed] = "reset" \/ task[installed] = "write_error"

\* C7 as stated: once the remote side has closed the connection, an accepted
\* log() call returns, the queue does not grow and exactly one diagnostic
\* line is emitted.
C7_LogAfterRemoteClose ==
    [][\A p \in Producers :
         (AcceptedLogStep(p) /\ ClosedByRemote) =>
             /\ call'[p].state \in {"sent", "failed"}
             /\ Len(queue'[installed]) <= Len(queue[installed])
             /\ Lines(stderr') = Lines(stderr) + 1]_vars

\* C7, amended: once the remote side has closed the connection and the
\* Delivery Loop has ended on the failed write, an accepted log() call
\* returns, the queue does not grow and exactly one diagnostic line is
\* emitted, by that call.
C7_LogAfterLoopEndedOnWriteError ==
    [][\A p \in Producers :
         (AcceptedLogStep(p) /\ task[installed] = "write_error") =>
             /\ call'[p].state = "failed"
             /\ queue' = queue
             /\ stderr'.log = stderr.log + 1
             /\ stderr'.logger_task = stderr.logger_task]_vars

\* the Delivery Loop has ended on a failed write, and a later log() call has
\* returned after its send failed
C7_Witness ==
    /\ installed # 0
    /\ task[installed] = "write_error"
    /\ stderr.logger_task = 1
    /\ \E p \in Producers : call[p].state = "failed"

\* C8: an accepted log() call that finds the queue closed, at once or after
\* waiting for room, makes one send, prints one diagnostic line, inserts
\* nothing, writes nothing and returns.
C8_ClosedQueueSwallowed ==
    [][\A p \in Producers :
         /\ (AcceptedLogStep(p) /\ ~ReceiverAlive(installed)) =>
                /\ call'[p].state = "failed"
                /\ attempts' = attempts + 1
                /\ stderr'.log = stderr.log + 1
                /\ <<queue, enq, wire>>' = <<queue, enq, wire>>
         /\ (call[p].state = "blocked" /\ call'[p].state = "failed") =>
                /\ ~ReceiverAlive(installed)
                /\ attempts' = attempts
                /\ stderr'.log = stderr.log + 1
                /\ <<queue, enq, wire>>' = <<queue, enq, wire>>]_vars

\* two log() calls have found the queue closed, one of them on entry and
\* the other one after waiting for room: two lines
C8_Witness ==
    /\ stderr.log = 2
    /\ attempts = Capacity + 2
    /\ \A p \in Producers : call[p].state = "failed"

\* init_logger call i returns in this step
Returns(i) == initPc[i] # "returned" /\ initPc'[i] = "returned"

\* C9 as stated: an init_logger call made while a logger is installed
\* returns SetLoggerError, and the installed logger stays the first one.
C9_SecondInitFails ==
    [][/\ \A i \in Inits :
            (Returns(i) /\ installed # 0) => result'[i] = "SetLoggerError"
       /\ installed # 0 => installed' = installed]_vars

\* C9, amended: an init_logger call made while a logger is installed never
\* returns Ok; when its connection is established and its Hello written it
\* returns SetLoggerError; the installed logger stays the first one.
C9_InstalledOnce ==
    [][/\ \A i \in Inits :
            (Returns(i) /\ installed # 0) =>
                /\ result'[i] # "Ok"
                /\ initPc[i] = "spawned" => result'[i] = "SetLoggerError"
       /\ installed # 0 => installed' = installed]_vars

\* the second call has returned SetLoggerError and the first call's logger
\* is the one installed
C9_Witness ==
    /\ installed = 1
    /\ result[2] = "SetLoggerError"

\* C10: an init_logger call whose connection is not established returns
\* ConnectError, and it has installed no logger, spawned no Delivery Loop
\* and written no message.
C10_ConnectFailure ==
    \A i \in Inits :
        (initPc[i] = "returned" /\ socket[i] = "none") =>
            /\ result[i] = "ConnectError"
            /\ installed # i
            /\ task[i] = "none"
            /\ wire[i] = <<>>
            /\ sender[i] = "dropped"

\* a call has failed to connect after an earlier call installed its logger
C10_Witness ==
    \E i \in Inits :
        /\ result[i] = "ConnectError"
        /\ socket[i] = "none"
        /\ installed \notin {0, i}

SameInput(r, s) == r.target = s.target /\ r.message = s.message

\* C12: an accepted log() call on an open queue that is not full appends
\* its Record, whatever the queue holds already, so that every send made so
\* far has inserted one Record, has failed with one line, or is waiting.
C12_NoDeduplication ==
    /\ [](installed # 0 =>
            attempts = Len(enq[installed]) + stderr.log + Cardinality(Blocked))
    /\ [][\A p \in Producers :
            (/\ AcceptedLogStep(p)
             /\ ReceiverAlive(installed)
             /\ Len(queue[installed]) < Capacity) =>
                /\ Len(queue'[installed]) = Len(queue[installed]) + 1
                /\ Len(enq'[installed]) = Len(enq[installed]) + 1
                /\ \A k \in DOMAIN queue[installed] :
                       queue'[installed][k] = queue[installed][k]]_vars

\* the queue holds two Records built from the same input by the same thread
C12_Witness ==
    /\ installed # 0
    /\ \E a, b \in DOMAIN queue[installed] :
           /\ a < b
           /\ SameInput(queue[installed][a], queue[installed][b])
           /\ queue[installed][a].by = queue[installed][b].by

\* C13: flush() can return at once whatever the queue holds and whatever
\* the Delivery Loop is doing, and a step of flush() changes neither a
\* queue, nor the messages written to a connection, nor a Delivery Loop,
\* nor anything else of the pipeline.
C13_FlushNoOp ==
    /\ [](\A p \in Producers :
            (installed # 0 /\ call[p].state # "blocked") => ENABLED flush(p))
    /\ [][\A p \in Producers :
            flush(p) =>
                UNCHANGED <<queue, wire, task, msg, socket, sender, receiver,
                            enq, attempts, stderr, installed>>]_vars

\* a thread that has returned from log() can call flush() and return from
\* it while the queue is full and the Delivery Loop is in the middle of a
\* write
C13_Witness ==
    /\ installed # 0
    /\ Len(queue[installed]) = Capacity
    /\ task[installed] = "write"
    /\ \E p \in Producers : call[p].state = "sent" /\ ENABLED flush(p)

\* the Delivery Loops that have ended
WriteFailed == {i \in Inits : task[i] = "write_error"}
Terminal(i) == task[i] \in {"write_error", "queue_closed"}

\* C14: the first failed write ends the Delivery Loop with one diagnostic
\* line: the step that fails writes nothing, a loop that has ended stays
\* ended and its connection gets no further message, so the Record whose
\* write failed and the Records behind it are never written.
C14_WriteErrorIsFinal ==
    /\ [](/\ stderr.logger_task = Cardinality(WriteFailed)
          /\ \A i \in WriteFailed :
                /\ IsPrefix(Written(i), enq[i])
                /\ Len(Written(i)) < Len(enq[i])
                /\ queue[i] = <<>>)
    /\ [][\A i \in Inits :
            /\ (task[i] = "write" /\ socket[i] = "reset") =>
                   (task'[i] # task[i] =>
                       /\ task'[i] = "write_error"
                       /\ wire'[i] = wire[i]
                       /\ stderr'.logger_task = stderr.logger_task + 1)
            /\ Terminal(i) => (task'[i] = task[i] /\ wire'[i] = wire[i])]_vars

\* a Delivery Loop has ended on a failed write after it wrote one Record,
\* and the Record that failed and one that was still buffered are lost
C14_Witness ==
    \E i \in WriteFailed :
        /\ Len(Written(i)) = 1
        /\ Len(enq[i]) >= 3
        /\ stderr.logger_task = 1

\* the Delivery Loop threads that are running
Running == {i \in Inits : task[i] \in {"recv", "write"}}

\* C15: in every reachable state at most one Delivery Loop thread is
\* running, also over several init_logger calls.  (An init_logger call that
\* finds a logger installed has spawned its own logger_task before
\* set_boxed_logger fails, next to the one of the first call.)
C15_AtMostOneDeliveryLoop == Cardinality(Running) <= 1

\* C16: the Hello is written by init_logger before the Delivery Loop
\* exists, and every later message of a connection is written by a step of
\* that connection's Delivery Loop, which is neither a step of log() nor a
\* step of init_logger; init_logger is never in its write on a connection
\* while the Delivery Loop of that connection exists.
C16_SingleWriter ==
    /\ [](\A i \in Inits :
            task[i] # "none" =>
                /\ initPc[i] \in {"spawned", "returned"}
                /\ HelloCount(i) = 1)
    /\ [][\A i \in Inits :
            wire'[i] # wire[i] =>
                IF wire[i] = <<>>
                THEN /\ wire'[i] = <<HelloMsg>>
                     /\ initPc[i] = "connected"
                     /\ task[i] = "none"
                ELSE /\ task[i] = "write"
                     /\ task'[i] = "recv"
                     /\ wire'[i] = Append(wire[i], RecordMsg(msg[i]))
                     /\ initPc' = initPc
                     /\ ncalls' = ncalls
                     /\ call' = call]_vars

\* a Delivery Loop is in a write on its connection, after the Hello and a
\* Record, while a thread waits in log() and a second init_logger call is
\* about to write the Hello of its own connection
C16_Witness ==
    \E i, j \in Inits :
        /\ i # j
        /\ task[i] = "write"
        /\ Len(wire[i]) >= 2
        /\ initPc[j] = "connected"
        /\ Blocked # {}

\* C17: a Delivery Loop whose writes succeed leaves its loop by
\* queue-closed only when the producing side is gone and no Record is
\* buffered, and by then it has written every Record that was enqueued, in
\* the order of the enqueues; while the producing side is gone and a Record
\* is buffered its next step takes that Record.
C17_DrainBeforeExit ==
    \A i \in Inits :
        /\ task[i] = "queue_closed" =>
               /\ ~SenderAlive(i)
               /\ queue[i] = <<>>
               /\ Written(i) = enq[i]
        /\ (task[i] = "recv" /\ ~SenderAlive(i)) => ENABLED logger_task_recv(i)
        /\ (task[i] = "recv" /\ queue[i] # <<>>) =>
               ENABLED (logger_task_recv(i) /\ task'[i] = "write")
        /\ (task[i] = "recv" /\ queue[i] # <<>>) =>
               ~ENABLED (logger_task_recv(i) /\ task'[i] = "queue_closed")

\* the logger has been dropped while the queue was full and the Delivery
\* Loop, which had written a Record before, is writing one more
C17_Witness ==
    \E i \in Inits :
        /\ ~SenderAlive(i)
        /\ Len(queue[i]) = Capacity
        /\ task[i] = "write"
        /\ Len(Written(i)) >= 1

\* the Delivery Loop of connection i is in a write that does not return
HungWrite(i) == task[i] = "write" /\ socket[i] = "hung"

\* C18: a connection that hangs never works again, and a Delivery Loop in a
\* write on it takes no further step: it writes nothing, takes nothing from its
\* queue and keeps the receiving end.  Once the queue of the installed
\* logger is full behind such a write, every accepted log() call ends up
\* waiting in send, and no thread that waits there can return.
C18_HungWriteStallsAll ==
    /\ [](\A i \in Inits :
            HungWrite(i) =>
                /\ ~ENABLED logger_task(i)
                /\ (installed = i /\ Len(queue[i]) = Capacity) =>
                       \A p \in Producers :
                           call[p].state = "blocked" => ~ENABLED send_wake(p))
    /\ [][\A i \in Inits :
            /\ socket[i] = "hung" => socket'[i] \in {"hung", "dropped"}
            /\ HungWrite(i) =>
                   /\ HungWrite(i)'
                   /\ wire'[i] = wire[i]
                   /\ msg'[i] = msg[i]
                   /\ receiver'[i] = receiver[i]
                   /\ IsPrefix(queue[i], queue'[i])
                   /\ (installed = i /\ Len(queue[i]) = Capacity) =>
                          /\ queue'[i] = queue[i]
                          /\ stderr' = stderr
                          /\ \A p \in Producers :
                                /\ AcceptedLogStep(p) => call'[p].state = "blocked"
                                /\ call[p].state = "blocked" => call'[p] = call[p]]_vars

\* the Delivery Loop of the installed logger is in a write that hangs, the
\* queue is full, a thread waits in log() and the calls are used up
C18_Witness ==
    /\ installed # 0
    /\ HungWrite(installed)
    /\ Len(queue[installed]) = Capacity
    /\ Blocked # {}
    /\ CallsOf(Producers) = MaxCalls

\* the Records written to any connection
AllWritten == UNION {{Written(i)[k] : k \in DOMAIN Written(i)} : i \in Inits}

\* C19: when the Delivery Loop ends on a write error while a thread waits
\* in log() on the full queue, the receiving end is gone, the thread's send
\* can return, and when it returns it has failed: the thread prints one
\* line, log() returns, nothing is enqueued or written; the Record of a
\* failed send is never on a connection.
C19_BlockedProducerReleased ==
    /\ [](\A p \in Producers :
            /\ (call[p].state = "blocked" /\ task[installed] = "write_error") =>
                   /\ ~ReceiverAlive(installed)
                   /\ ENABLED send_wake(p)
            /\ call[p].state = "failed" => call[p].record \notin AllWritten)
    /\ [][\A p \in Producers :
            (/\ call[p].state = "blocked"
             /\ task[installed] = "write_error"
             /\ call'[p] # call[p]) =>
                /\ call'[p] = [state |-> "failed", record |-> call[p].record]
                /\ stderr'.log = stderr.log + 1
                /\ queue' = queue
                /\ wire' = wire
                /\ ncalls' = ncalls]_vars

\* the Delivery Loop has just ended on a write error while a thread waits
\* in log()
C19_Witness ==
    /\ installed # 0
    /\ task[installed] = "write_error"
    /\ Blocked # {}
    /\ stderr = [log |-> 0, logger_task |-> 1]

\* what belongs to pipeline i
PipelineOf(i) == <<sender[i], receiver[i], socket[i], wire[i], queue[i],
                   task[i], msg[i], enq[i]>>

\* the init_logger calls that were rejected by set_boxed_logger
Rejected == {j \in Inits : result[j] = "SetLoggerError"}

\* C20: no step of an init_logger call changes the queue, the written
\* messages or the Delivery Loop of another call's pipeline, nor which
\* logger is installed once one is.  The pipeline of a call that returned
\* SetLoggerError has lost its Sender, never holds a Record and carries the
\* Hello only; its Delivery Loop waits in recv, can take its next step, and
\* that step ends it by queue-closed.
C20_RejectedInitIsolated ==
    /\ [](\A j \in Rejected :
            /\ installed \notin {0, j}
            /\ sender[j] = "dropped"
            /\ queue[j] = <<>> /\ enq[j] = <<>> /\ msg[j] = NoRecord
            /\ wire[j] = <<HelloMsg>>
            /\ task[j] \in {"recv", "queue_closed"}
            /\ task[j] = "recv" => ENABLED logger_task_recv(j))
    /\ [][\A j \in Inits :
            /\ initPc'[j] # initPc[j] =>
                   /\ \A i \in Inits \ {j} : PipelineOf(i)' = PipelineOf(i)
                   /\ installed # 0 =>
                          (installed' = installed /\ max_level' = max_level)
            /\ (j \in Rejected /\ task'[j] # task[j]) =>
                   /\ task'[j] = "queue_closed"
                   /\ wire'[j] = wire[j]
                   /\ PipelineOf(installed)' = PipelineOf(installed)]_vars

\* a call has returned SetLoggerError and its Delivery Loop has ended by
\* queue-closed, while the first pipeline has a full queue and its Delivery
\* Loop is in a write
C20_Witness ==
    \E j \in Rejected :
        /\ task[j] = "queue_closed"
        /\ Len(queue[installed]) = Capacity
        /\ task[installed] = "write"

=============================================================================
